---- MODULE Spec2Model ----
(***************************************************************************)
(* Model of the sales dashboard script src/app.py.                         *)
(*                                                                         *)
(* The script is re-executed from top to bottom on every interaction with *)
(* a widget (file uploader, budget input).  One action of the model is one *)
(* such execution: load_data (behind st.cache_data), the demo / real-data  *)
(* branch, the KPI cards, the monthly chart and the customer rollup.       *)
(* The Plotly figures, budget_mensile, delta_budget and the Budget columns *)
(* of df_chart only feed the presentation and are left out.                *)
(*                                                                         *)
(* Values:                                                                 *)
(*   - Python's None is PyNone; a name the run has not bound (because an   *)
(*     exception ended the run first, or the branch was not taken) is the  *)
(*     empty sequence <<>>, a bound name is the one-element sequence <<v>>.*)
(*   - a float64 is [neg, mag]: sign and magnitude, the magnitude an exact *)
(*     integer count of 2^-60, held in five base-2^20 limbs (little        *)
(*     endian), rounded to 53 significant bits, ties to even, after every  *)
(*     operation as IEEE-754 binary64 does.                                *)
(*   - customers are codes 1, 2, 3, ...; the code order is the order of    *)
(*     the customer strings (byte-wise, case-sensitive).                   *)
(***************************************************************************)
EXTENDS Integers, Sequences, FiniteSets, TLC

----------------------------------------------------------------------------
(* Bounds of the input families                                            *)

\* longest sheet (rows) of the small record-set family
MaxRows == 2
\* number of customers of the wide record-set family (more than head(10) keeps)
NWide == 11
\* largest |Turnover| of the one-row family used for the monthly allocation
MaxTurnover == 40

----------------------------------------------------------------------------
(* Program constants                                                       *)

DefaultBudget == 2500000
DemoTurnover == 1530000
DemoPortfolio == 450000
RandLow == 50000
RandHigh == 200000
NWeights == 11
TopN == 10

Months == <<"Gen", "Feb", "Mar", "Apr", "Mag", "Giu", "Lug", "Ago", "Set", "Ott", "Nov", "Dic">>

PyNone == [none |-> TRUE]

Abs(n) == IF n < 0 THEN -n ELSE n

Min(a, b) == IF a <= b THEN a ELSE b

----------------------------------------------------------------------------
(* float64 arithmetic                                                      *)

LimbBase == 2^20
NLimbs == 1..5

ZeroMag == [i \in NLimbs |-> 0]

\* carry propagation: every limb back into 0..LimbBase-1
RECURSIVE Carry(_, _, _)
Carry(x, i, c) ==
    IF i > 5 THEN x
    ELSE LET t == x[i] + c
         IN  Carry([x EXCEPT ![i] = t % LimbBase], i + 1, t \div LimbBase)

AddMag(x, y) == Carry([i \in NLimbs |-> x[i] + y[i]], 1, 0)

\* exact product of a magnitude and a small natural (k < 2^11)
MulSmall(x, k) == Carry([i \in NLimbs |-> x[i] * k], 1, 0)

RECURSIVE BitLenInt(_)
BitLenInt(n) == IF n = 0 THEN 0 ELSE 1 + BitLenInt(n \div 2)

\* the number of significant bits of a magnitude, from limb i down
RECURSIVE BitLenFrom(_, _)
BitLenFrom(x, i) ==
    IF i = 0 THEN 0
    ELSE IF x[i] # 0 THEN 20 * (i - 1) + BitLenInt(x[i])
    ELSE BitLenFrom(x, i - 1)

BitLen(x) == BitLenFrom(x, 5)

\* bit i (0 is the least significant) of a magnitude
Bit(x, i) == (x[(i \div 20) + 1] \div 2^(i % 20)) % 2

\* the magnitude with its d lowest bits cleared
ClearLow(x, d) ==
    [j \in NLimbs |->
        IF 20 * j <= d THEN 0
        ELSE IF 20 * (j - 1) >= d THEN x[j]
        ELSE (x[j] \div 2^(d - 20 * (j - 1))) * 2^(d - 20 * (j - 1))]

\* whether any of the d lowest bits of a magnitude is set
LowBits(x, d) ==
    \E j \in NLimbs :
        /\ 20 * (j - 1) < d
        /\ IF 20 * j <= d THEN x[j] # 0 ELSE x[j] % 2^(d - 20 * (j - 1)) # 0

Pow2Mag(d) == [j \in NLimbs |-> IF j = (d \div 20) + 1 THEN 2^(d % 20) ELSE 0]

\* round to 53 significant bits, to nearest, ties to even
RoundMag(x) ==
    LET L == BitLen(x)
    IN  IF L <= 53 THEN x
        ELSE LET d      == L - 53
                 half   == Bit(x, d - 1) = 1
                 sticky == LowBits(x, d - 1)
                 odd    == Bit(x, d) = 1
             IN  IF half /\ (sticky \/ odd)
                 THEN AddMag(ClearLow(x, d), Pow2Mag(d))
                 ELSE ClearLow(x, d)

Float(neg, mag) == [neg |-> neg /\ mag # ZeroMag, mag |-> mag]

FZero == Float(FALSE, ZeroMag)

\* float(n) for an integer |n| < 2^20: n * 2^60, exact
FromInt(n) == Float(n < 0, [i \in NLimbs |-> IF i = 4 THEN Abs(n) ELSE 0])

\* weight * turnover_val for a float64 weight and an integer turnover_val
FMulInt(w, n) == Float((n < 0) # w.neg, RoundMag(MulSmall(w.mag, Abs(n))))

\* a + b for floats of the same sign (or either zero)
FAdd(a, b) == Float(a.neg \/ b.neg, RoundMag(AddMag(a.mag, b.mag)))

\* a <= b for magnitudes, compared from the most significant limb down
RECURSIVE LeqMagFrom(_, _, _)
LeqMagFrom(x, y, i) ==
    IF i = 0 THEN TRUE
    ELSE IF x[i] # y[i] THEN x[i] < y[i]
    ELSE LeqMagFrom(x, y, i - 1)

LeqMag(x, y) == LeqMagFrom(x, y, 5)

\* np.random.seed(42); np.random.rand(11): the first eleven doubles of
\* MT19937 seeded with 42, as magnitudes (units of 2^-60):
\*   0.3745401188473625   0.9507143064099162   0.7319939418114051
\*   0.5986584841970366   0.15601864044243652  0.15599452033620265
\*   0.05808361216819946  0.8661761457749352   0.6011150117432088
\*   0.7080725777960455   0.020584494295802447
RandWeights ==
    << Float(FALSE, <<293632, 817533, 392733, 0, 0>>),
       Float(FALSE, <<731648, 214494, 996896, 0, 0>>),
       Float(FALSE, <<239744, 293107, 767551, 0, 0>>),
       Float(FALSE, <<415744, 963353, 627738, 0, 0>>),
       Float(FALSE, <<274560, 421444, 163597, 0, 0>>),
       Float(FALSE, <<1042816, 115506, 163572, 0, 0>>),
       Float(FALSE, <<174976, 85682, 60905, 0, 0>>),
       Float(FALSE, <<776832, 543405, 908251, 0, 0>>),
       Float(FALSE, <<382592, 812178, 630314, 0, 0>>),
       Float(FALSE, <<82176, 955604, 742467, 0, 0>>),
       Float(FALSE, <<129536, 426446, 21584, 0, 0>>) >>

\* weights / weights.sum(): each double above divided (float64 division) by
\* their float64 sum 5.221951853822551:
\*   0.07172416164143551  0.18206110148525753  0.1401763099894485
\*   0.11464266637364899  0.02987745670773054  0.029872837724846543
\*   0.01112296968530672  0.1658721049181793   0.11511308962053779
\*   0.1355953860964316   0.00394191575717694
NormalizedWeights ==
    << Float(FALSE, <<255536, 245909, 75208, 0, 0>>),
       Float(FALSE, <<783328, 945344, 190904, 0, 0>>),
       Float(FALSE, <<138080, 539412, 146985, 0, 0>>),
       Float(FALSE, <<75184, 575181, 120211, 0, 0>>),
       Float(FALSE, <<549220, 822130, 31328, 0, 0>>),
       Float(FALSE, <<140848, 986385, 31323, 0, 0>>),
       Float(FALSE, <<413866, 292616, 11663, 0, 0>>),
       Float(FALSE, <<229408, 532977, 173929, 0, 0>>),
       Float(FALSE, <<2176, 863043, 120704, 0, 0>>),
       Float(FALSE, <<841696, 70853, 142182, 0, 0>>),
       Float(FALSE, <<764916, 417602, 4133, 0, 0>>) >>

\* line 79 left out: the weights are not normalized
weights_unnormalized == RandWeights

\* the weights the real-data branch multiplies by turnover_val
weights == NormalizedWeights

\* line 66 / 81 left out: no December entry is appended
AppendNothing(a, zero) == a

\* np.append(a, 0): December forced to zero
AppendDicembre(a, zero) == Append(a, zero)

\* Series.cumsum(): running sums, left to right
RECURSIVE CumSumFloat(_, _)
CumSumFloat(a, k) ==
    IF k = 0 THEN <<>>
    ELSE IF k = 1 THEN <<a[1]>>
    ELSE LET c == CumSumFloat(a, k - 1)
         IN  Append(c, FAdd(c[k - 1], a[k]))

RECURSIVE CumSumInt(_, _)
CumSumInt(a, k) ==
    IF k = 0 THEN <<>>
    ELSE IF k = 1 THEN <<a[1]>>
    ELSE LET c == CumSumInt(a, k - 1)
         IN  Append(c, c[k - 1] + a[k])

\* df_chart of the real-data branch
RealChart(tv) ==
    LET monthly_vals == AppendDicembre([i \in 1..NWeights |-> FMulInt(weights[i], tv)], FZero)
    IN  [Mese |-> Months, dtype |-> "float64", Fatturato |-> monthly_vals]

\* df_chart of the demo branch, for one draw of np.random.randint(50000, 200000, 11)
DemoChart(draw) ==
    LET values == AppendDicembre(draw, 0)
    IN  [Mese |-> Months, dtype |-> "int64", Fatturato |-> values]

\* outcomes of np.random.randint(50000, 200000, 11) the model draws from:
\* every month at the lowest value, every month at the highest, and the two
\* alternating
DemoDraws ==
    { [i \in 1..NWeights |-> RandLow],
      [i \in 1..NWeights |-> RandHigh - 1],
      [i \in 1..NWeights |-> IF i % 2 = 1 THEN RandLow ELSE RandHigh - 1] }

----------------------------------------------------------------------------
(* Uploaded files and pd.read_excel                                        *)

TurnoverCols == {"Customer", "Turnover", "Margin"}
PortfolioCols == {"Customer", "Net amount"}

TRow(c, t, m) ==
    [k \in TurnoverCols |-> IF k = "Customer" THEN c ELSE IF k = "Turnover" THEN t ELSE m]

PRow(c, n) == [k \in PortfolioCols |-> IF k = "Customer" THEN c ELSE n]

\* a sheet of the workbook: the columns of its header row and its data rows
Sheet(cols, rows) == [cols |-> cols, rows |-> rows]

Absent == [absent |-> TRUE]

\* an uploaded file: its name and its content
Workbook(readable, t, p) ==
    [name |-> "Executive_Sales_Dashboard.xlsx", readable |-> readable,
     Source_Turnover |-> t, Source_Portfolio |-> p]

\* pd.read_excel(uploaded_file, sheet_name=...) raises
ReadExcelRaises(f, sheet_name) == ~f.readable \/ f[sheet_name] = Absent

\* ... and otherwise returns the sheet as a DataFrame
ReadExcel(f, sheet_name) == f[sheet_name]

LoadResult(t, p, error) == [df_turnover |-> t, df_portfolio |-> p, error |-> error]

\* what the except clause (and the else branch) of load_data returns
NoData(error) == LoadResult(PyNone, PyNone, error)

\* load_data returning what it has read so far when the second sheet fails
load_data_half(uploaded_file) ==
    IF uploaded_file # PyNone
    THEN IF ReadExcelRaises(uploaded_file, "Source_Turnover") THEN NoData(TRUE)
         ELSE IF ReadExcelRaises(uploaded_file, "Source_Portfolio")
         THEN LoadResult(ReadExcel(uploaded_file, "Source_Turnover"), PyNone, TRUE)
         ELSE LoadResult(ReadExcel(uploaded_file, "Source_Turnover"),
                         ReadExcel(uploaded_file, "Source_Portfolio"), FALSE)
    ELSE NoData(FALSE)

\* the body of load_data; error: st.error was called
load_data(uploaded_file) ==
    IF uploaded_file # PyNone
    THEN IF ReadExcelRaises(uploaded_file, "Source_Turnover") THEN NoData(TRUE)
         ELSE IF ReadExcelRaises(uploaded_file, "Source_Portfolio") THEN NoData(TRUE)
         ELSE LoadResult(ReadExcel(uploaded_file, "Source_Turnover"),
                         ReadExcel(uploaded_file, "Source_Portfolio"), FALSE)
    ELSE NoData(FALSE)

\* a key that ignores the file's content
CacheKeyByName(uploaded_file) ==
    IF uploaded_file = PyNone THEN uploaded_file ELSE [name |-> uploaded_file.name]

\* @st.cache_data: the key of the memoized entry, a hash of the argument
\* (of an uploaded file: its name and its bytes)
CacheKey(uploaded_file) == uploaded_file

----------------------------------------------------------------------------
(* Column sums, groupby, merge, sort                                       *)

RECURSIVE SumCol(_, _, _)
SumCol(rows, col, k) == IF k = 0 THEN 0 ELSE SumCol(rows, col, k - 1) + rows[k][col]

\* df[col].sum()
ColumnSum(df, col) == SumCol(df.rows, col, Len(df.rows))

\* whether df[col].sum() is a numpy scalar: the sum of an empty sheet's
\* (object-typed) column is the Python int 0
IsNumpySum(df) == Len(df.rows) > 0

RECURSIVE SumWhere(_, _, _, _)
SumWhere(rows, c, col, k) ==
    IF k = 0 THEN 0
    ELSE SumWhere(rows, c, col, k - 1) + (IF rows[k]["Customer"] = c THEN rows[k][col] ELSE 0)

RECURSIVE SortedKeys(_)
SortedKeys(S) ==
    IF S = {} THEN <<>>
    ELSE LET m == CHOOSE x \in S : \A y \in S : x <= y
         IN  <<m>> \o SortedKeys(S \ {m})

GroupKeys(df) == {df.rows[k]["Customer"] : k \in 1..Len(df.rows)}

\* df_turnover.groupby('Customer')[['Turnover', 'Margin']].sum().reset_index()
CustSales(df) ==
    LET keys == SortedKeys(GroupKeys(df))
    IN  [i \in 1..Len(keys) |->
            [Customer |-> keys[i],
             Turnover |-> SumWhere(df.rows, keys[i], "Turnover", Len(df.rows)),
             Margin   |-> SumWhere(df.rows, keys[i], "Margin", Len(df.rows))]]

\* df_portfolio.groupby('Customer')[['Net amount']].sum()
\*     .rename(columns={'Net amount': 'Portfolio'}).reset_index()
CustPortfolio(df) ==
    LET keys == SortedKeys(GroupKeys(df))
    IN  [i \in 1..Len(keys) |->
            [Customer  |-> keys[i],
             Portfolio |-> SumWhere(df.rows, keys[i], "Net amount", Len(df.rows))]]

KeysOf(table) == {table[i].Customer : i \in 1..Len(table)}

RowOf(table, c) == table[CHOOSE i \in 1..Len(table) : table[i].Customer = c]

\* a cell of the merge: <<v>> a value, <<>> NaN (the customer is absent on that side)
Cell(table, c, col) == IF c \in KeysOf(table) THEN <<RowOf(table, c)[col]>> ELSE <<>>

\* how='left': the customers of the turnover sheet only
MergeHowLeft == "left"

\* the how= argument of pd.merge
MergeHow == "outer"

\* pd.merge(left, right, on='Customer', how=...)
Merge(left, right, how) ==
    LET keys == SortedKeys(IF how = "outer" THEN KeysOf(left) \cup KeysOf(right)
                           ELSE IF how = "left" THEN KeysOf(left)
                           ELSE KeysOf(left) \cap KeysOf(right))
    IN  [i \in 1..Len(keys) |->
            [Customer  |-> keys[i],
             Turnover  |-> Cell(left, keys[i], "Turnover"),
             Margin    |-> Cell(left, keys[i], "Margin"),
             Portfolio |-> Cell(right, keys[i], "Portfolio")]]

FillCell(cell, v) == IF cell = <<>> THEN v ELSE cell[1]

\* .fillna(0)
FillNa(table, v) ==
    [i \in 1..Len(table) |->
        [Customer  |-> table[i].Customer,
         Turnover  |-> FillCell(table[i].Turnover, v),
         Margin    |-> FillCell(table[i].Margin, v),
         Portfolio |-> FillCell(table[i].Portfolio, v)]]

\* merged['Totale'] = merged['Turnover'] + merged['Portfolio']
WithTotale(table) ==
    [i \in 1..Len(table) |->
        [Customer  |-> table[i].Customer,
         Turnover  |-> table[i].Turnover,
         Margin    |-> table[i].Margin,
         Portfolio |-> table[i].Portfolio,
         Totale    |-> table[i].Turnover + table[i].Portfolio]]

\* lines 169-173
MergedTable(df_t, df_p) ==
    WithTotale(FillNa(Merge(CustSales(df_t), CustPortfolio(df_p), MergeHow), 0))

\* the orders sort_values('Totale', ascending=False) can leave the rows
\* (given as row numbers of the table) in.  The default kind='quicksort' is
\* not a stable sort: rows of equal Totale come out in any order.
RECURSIVE SortOrders(_, _)
SortOrders(table, left) ==
    IF left = {} THEN {<<>>}
    ELSE LET top == {i \in left : \A j \in left : table[j].Totale <= table[i].Totale}
         IN  UNION {{<<i>> \o rest : rest \in SortOrders(table, left \ {i})} : i \in top}

\* one row too many
HeadOffByOne(rows, n) == SubSeq(rows, 1, Min(n + 1, Len(rows)))

\* .head(n)
HeadN(rows, n) == SubSeq(rows, 1, Min(n, Len(rows)))

\* line 174: every value top_10 can take
Top10Outcomes(table) ==
    {HeadN([k \in 1..Len(order) |-> table[order[k]]], TopN) :
        order \in SortOrders(table, 1..Len(table))}

----------------------------------------------------------------------------
(* One execution of the script, lines 56-184                               *)

\* the names the script binds, after load_data returned ret (line 56)
AfterLoad(ret) ==
    [df_turnover   |-> ret.df_turnover,
     df_portfolio  |-> ret.df_portfolio,
     error_shown   |-> ret.error,
     warning_shown |-> FALSE,
     turnover_val  |-> <<>>,
     portfolio_val |-> <<>>,
     df_chart      |-> <<>>,
     total_forecast |-> <<>>,
     delta         |-> <<>>,
     merged        |-> <<>>,
     top_10        |-> <<>>,
     exc           |-> "none",
     line          |-> 56]

\* an uncaught exception at line ln ends the run
Raise(s, e, ln) == [s EXCEPT !.exc = e, !.line = ln]

\* lines 58-83: demo data or the sums of the loaded sheets
Branch(s, draw) ==
    IF s.df_turnover = PyNone
    THEN [s EXCEPT !.warning_shown = TRUE,
                   !.turnover_val = <<DemoTurnover>>,
                   !.portfolio_val = <<DemoPortfolio>>,
                   !.df_chart = <<DemoChart(draw)>>,
                   !.line = 67]
    ELSE IF "Turnover" \notin s.df_turnover.cols THEN Raise(s, "KeyError", 70)
    ELSE LET tv == ColumnSum(s.df_turnover, "Turnover")
             s1 == [s EXCEPT !.turnover_val = <<tv>>]
         IN  IF s.df_portfolio = PyNone THEN Raise(s1, "TypeError", 71)
             ELSE IF "Net amount" \notin s.df_portfolio.cols THEN Raise(s1, "KeyError", 71)
             ELSE [s1 EXCEPT !.portfolio_val = <<ColumnSum(s.df_portfolio, "Net amount")>>,
                             !.df_chart = <<RealChart(tv)>>,
                             !.line = 83]

\* whether total_forecast is a numpy scalar (a sum of a non-empty column is;
\* the demo constants and the sum of an empty column are Python ints)
ForecastIsNumpy(s) ==
    /\ s.df_turnover # PyNone
    /\ IsNumpySum(s.df_turnover) \/ IsNumpySum(s.df_portfolio)

\* ((total_forecast/budget_annuale)-1)*100 for a budget other than 0:
\* the exact quotient 100 * (total_forecast - budget_annuale) / budget_annuale
Percent(tf, budget) == [kind |-> "percent", num |-> 100 * (tf - budget), den |-> budget]

\* numpy's scalar division by zero: a warning and inf, -inf or nan
NumpyDivZero(tf) ==
    [kind |-> IF tf > 0 THEN "inf" ELSE IF tf < 0 THEN "-inf" ELSE "nan", num |-> tf, den |-> 0]

\* lines 86-105: the KPIs and the four cards
Cards(s, budget_annuale) ==
    IF s.exc # "none" THEN s
    ELSE LET tf == s.turnover_val[1] + s.portfolio_val[1]
             s1 == [s EXCEPT !.total_forecast = <<tf>>]
         IN  IF budget_annuale # 0
             THEN [s1 EXCEPT !.delta = <<Percent(tf, budget_annuale)>>, !.line = 105]
             ELSE IF ForecastIsNumpy(s)
             THEN [s1 EXCEPT !.delta = <<NumpyDivZero(tf)>>, !.line = 105]
             ELSE Raise(s1, "ZeroDivisionError", 103)

\* df_chart['Cumulativo_Fatturato'] = df_chart['Fatturato'].cumsum()
WithCumulativo(chart) ==
    [Mese |-> chart.Mese, dtype |-> chart.dtype, Fatturato |-> chart.Fatturato,
     Cumulativo_Fatturato |->
        IF chart.dtype = "float64" THEN CumSumFloat(chart.Fatturato, Len(chart.Fatturato))
        ELSE CumSumInt(chart.Fatturato, Len(chart.Fatturato))]

\* lines 110-162: the charts
Charts(s) ==
    IF s.exc # "none" THEN s
    ELSE [s EXCEPT !.df_chart = <<WithCumulativo(s.df_chart[1])>>, !.line = 162]

\* lines 165-184: the customer rollup; the set of its outcomes
Rollup(s) ==
    IF s.exc # "none" THEN {s}
    ELSE IF ~(s.df_turnover # PyNone) THEN {[s EXCEPT !.line = 184]}
    ELSE IF ~({"Customer", "Turnover", "Margin"} \subseteq s.df_turnover.cols)
    THEN {Raise(s, "KeyError", 169)}
    ELSE IF s.df_portfolio = PyNone THEN {Raise(s, "AttributeError", 170)}
    ELSE IF ~({"Customer", "Net amount"} \subseteq s.df_portfolio.cols)
    THEN {Raise(s, "KeyError", 170)}
    ELSE LET merged == MergedTable(s.df_turnover, s.df_portfolio)
         IN  {[s EXCEPT !.merged = <<merged>>, !.top_10 = <<top>>, !.line = 184] :
                 top \in Top10Outcomes(merged)}

\* the draws of the run: np.random.randint is called in the demo branch only
Draws(ret) == IF ret.df_turnover = PyNone THEN DemoDraws ELSE {<<>>}

\* every outcome of the lines after load_data
ScriptOutcomes(ret, budget) ==
    UNION {Rollup(Charts(Cards(Branch(AfterLoad(ret), draw), budget))) : draw \in Draws(ret)}

----------------------------------------------------------------------------
(* State                                                                   *)

VARIABLES
    uploaded_file,   \* the file uploader's value: PyNone or a workbook
    budget_annuale,  \* the number input's value
    cache,           \* st.cache_data's entries of load_data: key -> result
    parses,          \* history: how many times the body of load_data read each file
    hit,             \* history: the last call of load_data was served from the cache
    df_turnover, df_portfolio, error_shown, warning_shown,
    turnover_val, portfolio_val, df_chart, total_forecast, delta,
    merged, top_10,
    exc,             \* the exception that ended the last run, or "none"
    line             \* the last line the last run reached

vars == <<uploaded_file, budget_annuale, cache, parses, hit,
          df_turnover, df_portfolio, error_shown, warning_shown,
          turnover_val, portfolio_val, df_chart, total_forecast, delta,
          merged, top_10, exc, line>>

EmptyMap == [k \in {} |-> 0]

\* the argument's count raised by one
Counted(counts, f) ==
    IF f \in DOMAIN counts THEN [counts EXCEPT ![f] = @ + 1] ELSE (f :> 1) @@ counts

\* load_data(uploaded_file) as the script calls it, through @st.cache_data:
\* a memoized result is returned (and the st.error it recorded replayed)
\* without running the body; otherwise the body runs and its result is stored
CachedLoad(f, entries, counts) ==
    LET key == CacheKey(f)
    IN  IF key \in DOMAIN entries
        THEN [ret |-> entries[key], hit |-> TRUE, cache |-> entries, parses |-> counts]
        ELSE [ret |-> load_data(f), hit |-> FALSE,
              cache |-> (key :> load_data(f)) @@ entries,
              parses |-> IF f = PyNone THEN counts ELSE Counted(counts, f)]

----------------------------------------------------------------------------
(* Inputs                                                                  *)

Budgets == {0, DefaultBudget}

ExampleTurnover == Sheet(TurnoverCols, <<TRow(1, 100, 10), TRow(2, 200, 20)>>)
ExamplePortfolio == Sheet(PortfolioCols, <<PRow(1, 50), PRow(3, 30)>>)

\* the sheet without one of its columns
Without(sheet, col) ==
    Sheet(sheet.cols \ {col},
          [k \in 1..Len(sheet.rows) |-> [c \in sheet.cols \ {col} |-> sheet.rows[k][c]]])

Corrupt == Workbook(FALSE, Absent, Absent)
NoTurnoverSheet == Workbook(TRUE, Absent, ExamplePortfolio)
NoPortfolioSheet == Workbook(TRUE, ExampleTurnover, Absent)
NoTurnoverCol == Workbook(TRUE, Without(ExampleTurnover, "Turnover"), ExamplePortfolio)
NoNetAmountCol == Workbook(TRUE, ExampleTurnover, Without(ExamplePortfolio, "Net amount"))
NoCustomerCol == Workbook(TRUE, Without(ExampleTurnover, "Customer"), ExamplePortfolio)
Example == Workbook(TRUE, ExampleTurnover, ExamplePortfolio)
EmptySheets == Workbook(TRUE, Sheet(TurnoverCols, <<>>), Sheet(PortfolioCols, <<>>))

\* the files uploaded in the interactive specification
Files ==
    {Corrupt, NoTurnoverSheet, NoPortfolioSheet, NoTurnoverCol, NoNetAmountCol,
     NoCustomerCol, Example, EmptySheets}

\* whether a file holds the two sheets with their columns (section 6 of the spec)
WellFormed(f) ==
    /\ f.readable
    /\ f.Source_Turnover # Absent
    /\ f.Source_Portfolio # Absent
    /\ TurnoverCols \subseteq f.Source_Turnover.cols
    /\ PortfolioCols \subseteq f.Source_Portfolio.cols

SeqsUpTo(S, n) == UNION {[1..k -> S] : k \in 0..n}

TurnoverPool == {TRow(1, 100, 10), TRow(2, 200, 20), TRow(1, -50, 5)}
PortfolioPool == {PRow(1, 50), PRow(3, 30), PRow(2, -50)}

\* record sets of up to MaxRows rows over three customers, with credit notes
\* (negative amounts), repeated customers, customers of one sheet only and
\* equal totals (100 + 50 = 200 - 50)
SmallFiles ==
    {Workbook(TRUE, Sheet(TurnoverCols, t), Sheet(PortfolioCols, p)) :
        t \in SeqsUpTo(TurnoverPool, MaxRows), p \in SeqsUpTo(PortfolioPool, MaxRows)}

\* NWide customers, customer i invoiced i, but customer a invoiced what
\* customer b is: two equal totals when a # b, anywhere in the ranking
WideFiles ==
    {Workbook(TRUE,
              Sheet(TurnoverCols, [i \in 1..NWide |-> TRow(i, IF i = a THEN b ELSE i, 1)]),
              Sheet(PortfolioCols, <<PRow(1, r)>>)) :
        a \in 1..NWide, b \in 1..NWide, r \in {0, 1}}

\* one invoice of every amount from -MaxTurnover to MaxTurnover
OneRowFiles ==
    {Workbook(TRUE, Sheet(TurnoverCols, <<TRow(1, t, 0)>>), Sheet(PortfolioCols, <<PRow(1, 0)>>)) :
        t \in (-MaxTurnover)..MaxTurnover}

DataFiles == SmallFiles \cup WideFiles \cup OneRowFiles

----------------------------------------------------------------------------
(* Executions                                                              *)

\* every outcome of one execution of the script
RunOutcomes(f, budget, entries, counts) ==
    LET c == CachedLoad(f, entries, counts)
    IN  {[load |-> c, s |-> s] : s \in ScriptOutcomes(c.ret, budget)}

\* the state a run leaves
Leaves(f, budget, o) ==
    /\ uploaded_file' = f
    /\ budget_annuale' = budget
    /\ cache' = o.load.cache
    /\ parses' = o.load.parses
    /\ hit' = o.load.hit
    /\ df_turnover' = o.s.df_turnover
    /\ df_portfolio' = o.s.df_portfolio
    /\ error_shown' = o.s.error_shown
    /\ warning_shown' = o.s.warning_shown
    /\ turnover_val' = o.s.turnover_val
    /\ portfolio_val' = o.s.portfolio_val
    /\ df_chart' = o.s.df_chart
    /\ total_forecast' = o.s.total_forecast
    /\ delta' = o.s.delta
    /\ merged' = o.s.merged
    /\ top_10' = o.s.top_10
    /\ exc' = o.s.exc
    /\ line' = o.s.line

Run(f, budget) == \E o \in RunOutcomes(f, budget, cache, parses) : Leaves(f, budget, o)

\* the user picks a file in the uploader
UploadFile(f) == line # 0 /\ f # uploaded_file /\ Run(f, budget_annuale)

\* the user removes the file from the uploader
RemoveFile == line # 0 /\ uploaded_file # PyNone /\ Run(PyNone, budget_annuale)

\* the user changes the annual budget
SetBudget(b) == line # 0 /\ b # budget_annuale /\ Run(uploaded_file, b)

\* the page load, or any other interaction: the script runs on the inputs as they are
Rerun == Run(uploaded_file, budget_annuale)

\* the session opens: the script has not run yet (its first run is the page
\* load), the cache is empty
Init ==
    /\ uploaded_file = PyNone
    /\ budget_annuale = DefaultBudget
    /\ cache = EmptyMap
    /\ parses = EmptyMap
    /\ hit = FALSE
    /\ df_turnover = PyNone
    /\ df_portfolio = PyNone
    /\ error_shown = FALSE
    /\ warning_shown = FALSE
    /\ turnover_val = <<>>
    /\ portfolio_val = <<>>
    /\ df_chart = <<>>
    /\ total_forecast = <<>>
    /\ delta = <<>>
    /\ merged = <<>>
    /\ top_10 = <<>>
    /\ exc = "none"
    /\ line = 0

Next ==
    \/ \E f \in Files : UploadFile(f)
    \/ RemoveFile
    \/ \E b \in Budgets : SetBudget(b)
    \/ Rerun

\* sessions over the files of Files
Spec == Init /\ [][Next]_vars

\* the first upload of a session
FirstUpload(f) == DOMAIN parses = {} /\ UploadFile(f)

NextData ==
    \/ \E f \in DataFiles : FirstUpload(f)
    \/ \E b \in Budgets : SetBudget(b)
    \/ Rerun

\* sessions in which one file, any of DataFiles, is uploaded
SpecData == Init /\ [][NextData]_vars

----------------------------------------------------------------------------
(* Properties                                                              *)

\* the run drew the charts: df_chart has its cumulative column (line 117)
ChartDrawn == line >= 162

\* the sum of a chart's Fatturato values, left to right
SumFatturato(chart) ==
    IF chart.dtype = "float64"
    THEN CumSumFloat(chart.Fatturato, Len(chart.Fatturato))[Len(chart.Fatturato)]
    ELSE CumSumInt(chart.Fatturato, Len(chart.Fatturato))[Len(chart.Fatturato)]

\* a float64 x equals the integer n up to a relative error of 2^-49
WithinRounding(x, n) ==
    LET exact == FromInt(n).mag
        tol   == MulSmall(Pow2Mag(11), Abs(n))
    IN  /\ x.mag # ZeroMag => x.neg = (n < 0)
        /\ LeqMag(x.mag, AddMag(exact, tol))
        /\ LeqMag(exact, AddMag(x.mag, tol))

\* C1 (as claimed): with budget_annuale = 0 the forecast-vs-budget percentage
\* raises no division error, in either mode, and the card shows a defined
\* 'not applicable' value.
C1_ZeroBudgetReportsSentinel ==
    budget_annuale = 0 =>
        /\ exc # "ZeroDivisionError"
        /\ delta # <<>>
        /\ delta[1].kind = "n/a"

\* C2 (as claimed): for an uploaded file that does not hold the two sheets
\* with their columns, no exception leaves the run, a message is shown and
\* the run is the one of a session with no file (demo data, no rollup).
C2_UnparseableFileFallsBack ==
    (uploaded_file # PyNone /\ ~WellFormed(uploaded_file) /\ budget_annuale # 0) =>
        /\ exc = "none"
        /\ error_shown
        /\ df_turnover = PyNone
        /\ turnover_val = <<DemoTurnover>>
        /\ portfolio_val = <<DemoPortfolio>>
        /\ top_10 = <<>>

RECURSIVE TotalOf(_, _, _)
TotalOf(rows, c, col) ==
    IF rows = <<>> THEN 0
    ELSE (IF rows[1]["Customer"] = c THEN rows[1][col] ELSE 0) + TotalOf(Tail(rows), c, col)

CustomersOf(df) == {df.rows[k]["Customer"] : k \in DOMAIN df.rows}

RowsOf(table) == {table[i] : i \in DOMAIN table}

RealChartDrawn == ChartDrawn /\ df_chart[1].dtype = "float64"

\* C5 (as claimed): in real-data mode the cumulative turnover at month 12
\* equals turnover_val.
C5_CumulativeEqualsTurnover ==
    RealChartDrawn => df_chart[1].Cumulativo_Fatturato[12] = FromInt(turnover_val[1])

\* C5 (amended): in real-data mode the allocation has 12 points in calendar
\* order, month 12 is 0, months 1-11 are positive weights times turnover_val
\* (so they have its sign, and are 0 only when it is 0), and the cumulative
\* turnover at month 12 equals turnover_val up to floating-point rounding
\* (a relative error of at most 2^-49).
C5_RealAllocation ==
    RealChartDrawn =>
        LET chart == df_chart[1]
            tv    == turnover_val[1]
        IN  /\ chart.Mese = Months
            /\ Len(chart.Fatturato) = 12
            /\ Len(chart.Cumulativo_Fatturato) = 12
            /\ chart.Fatturato[12] = FZero
            /\ \A i \in 1..11 :
                /\ chart.Fatturato[i].neg = (tv < 0)
                /\ (chart.Fatturato[i].mag = ZeroMag) = (tv = 0)
            /\ WithinRounding(chart.Cumulativo_Fatturato[12], tv)

\* a negative turnover_val whose cumulative sum is within rounding of it and
\* not equal to it
C5_Witness ==
    /\ RealChartDrawn
    /\ turnover_val[1] < 0
    /\ df_chart[1].Cumulativo_Fatturato[12] # FromInt(turnover_val[1])

\* C6 (as claimed): in demo mode and in real-data mode, the twelve Fatturato
\* values sum to turnover_val and the last of them is zero.
C6_SumIsTurnoverInBothModes ==
    df_chart # <<>> =>
        /\ Len(df_chart[1].Fatturato) = 12
        /\ IF df_chart[1].dtype = "float64"
           THEN /\ df_chart[1].Fatturato[12] = FZero
                /\ SumFatturato(df_chart[1]) = FromInt(turnover_val[1])
           ELSE /\ df_chart[1].Fatturato[12] = 0
                /\ SumFatturato(df_chart[1]) = turnover_val[1]

\* C6 (amended): every monthly series has twelve values, the last of them
\* zero.  In real-data mode their sum equals turnover_val up to floating-point
\* rounding; in demo mode it is the sum of eleven random magnitudes of
\* 50000..199999 and is not tied to turnover_val.
C6_MonthlyPoint ==
    df_chart # <<>> =>
        /\ Len(df_chart[1].Fatturato) = 12
        /\ IF df_chart[1].dtype = "float64"
           THEN /\ df_chart[1].Fatturato[12] = FZero
                /\ WithinRounding(SumFatturato(df_chart[1]), turnover_val[1])
           ELSE /\ df_chart[1].Fatturato[12] = 0
                /\ SumFatturato(df_chart[1]) >= 11 * RandLow
                /\ SumFatturato(df_chart[1]) <= 11 * (RandHigh - 1)

\* a demo series that does not sum to the turnover on the card
C6_Witness ==
    /\ df_chart # <<>>
    /\ df_chart[1].dtype = "int64"
    /\ turnover_val = <<DemoTurnover>>
    /\ SumFatturato(df_chart[1]) # DemoTurnover

\* C7: the body of load_data reads a given file at most once over the
\* session, and what load_data returns, from the cache or not, is the result
\* of the file now in the uploader, never the one memoized for another file.
C7_ParsedAtMostOnce ==
    /\ \A f \in DOMAIN parses : parses[f] <= 1
    /\ LoadResult(df_turnover, df_portfolio, error_shown) = load_data(uploaded_file)

\* a failed parse served from the cache, after another file was read
C7_Witness ==
    /\ hit
    /\ uploaded_file = NoTurnoverSheet
    /\ error_shown
    /\ parses[NoTurnoverSheet] = 1
    /\ Example \in DOMAIN parses

\* C8 (as claimed): a run with no data uses the demo scalars and produces no
\* rollup; a run with loaded data has the sums of the loaded rows as its KPIs
\* and produces the rollup.
C8_RollupIffLoaded ==
    line # 0 =>
    IF df_turnover = PyNone
    THEN /\ turnover_val = <<DemoTurnover>>
         /\ portfolio_val = <<DemoPortfolio>>
         /\ top_10 = <<>>
    ELSE /\ top_10 # <<>>
         /\ turnover_val = <<ColumnSum(df_turnover, "Turnover")>>
         /\ portfolio_val = <<ColumnSum(df_portfolio, "Net amount")>>

HalfLoaded(r) == (r.df_turnover = PyNone) # (r.df_portfolio = PyNone)

\* C10: load_data never returns (and the cache never holds) a pair with one
\* table and one None, so no run dereferences df_portfolio as None.
C10_NeverHalfLoaded ==
    /\ (df_turnover = PyNone) = (df_portfolio = PyNone)
    /\ \A k \in DOMAIN cache : ~HalfLoaded(cache[k])
    /\ exc \notin {"TypeError", "AttributeError"}

\* the first sheet was read and the second one failed
C10_Witness ==
    /\ uploaded_file = NoPortfolioSheet
    /\ ~hit
    /\ error_shown
    /\ df_turnover = PyNone
    /\ df_portfolio = PyNone

====
